---------------------------- MODULE Spec2Model ----------------------------
(***************************************************************************)
(* dietcoach: the recipe matcher, the week plan assembler and the AI plan  *)
(* generator, modelled from the JavaScript sources.                        *)
(*                                                                         *)
(* The repository holds several versions of the same services side by      *)
(* side.  Each version is modelled under its own name:                     *)
(*   planService.js:51   generateWeekPlan   -> version "A"                 *)
(*   planService.js:160  generateWeekPlan   -> version "B"                 *)
(*   unnamed/part_004:22 generateWeekPlan   -> version "C"                 *)
(*   recipeService.js    getBestRecipeForMeal / findRecipeForMeal (alias)  *)
(*   unnamed/part_005    findRecipeForMeal (Manhattan, threshold)          *)
(*   unnamed/part_006    aiPlanService (generateMealPlan, _storeMealPlan)  *)
(*   unnamed/part_000    aiPlanService, second version                     *)
(*                                                                         *)
(* Text is a sequence of one-character strings, so that split, trim,       *)
(* toLowerCase and includes are computed as JavaScript computes them.      *)
(***************************************************************************)
EXTENDS Integers, Sequences, FiniteSets, TLC

\* ------------------------------------------------------------------ bounds

\* Longest recipe pool drawn for the matcher specification.
MaxPool == 2

\* Number of generation requests the server specification accepts.
MaxRequests == 1

\* Number of recipe searches the search specification accepts.
MaxSearches == 2

\* Number of times the clock advances in the search specification.
MaxTicks == 3

\* Number of POST /preferences requests in flight together.
MaxPosts == 2

\* ------------------------------------------------------------------- text

UpperChars == <<"A","B","C","D","E","F","G","H","I","J","K","L","M",
                "N","O","P","Q","R","S","T","U","V","W","X","Y","Z">>

LowerChars == <<"a","b","c","d","e","f","g","h","i","j","k","l","m",
                "n","o","p","q","r","s","t","u","v","w","x","y","z">>

\* String.prototype.toLowerCase, one character.
LowerChar(c) ==
    IF \E i \in DOMAIN UpperChars : UpperChars[i] = c
    THEN LowerChars[CHOOSE i \in DOMAIN UpperChars : UpperChars[i] = c]
    ELSE c

\* String.prototype.toLowerCase.
ToLowerCase(s) == [i \in DOMAIN s |-> LowerChar(s[i])]

\* String.prototype.includes: needle occurs in hay as a contiguous substring.
Includes(hay, needle) ==
    \E i \in 0..(Len(hay) - Len(needle)) :
        SubSeq(hay, i + 1, i + Len(needle)) = needle

\* String.prototype.trim (the only white space in the modelled texts is " ").
RECURSIVE Trim(_)
Trim(s) ==
    IF s = <<>> THEN s
    ELSE IF Head(s) = " " THEN Trim(Tail(s))
    ELSE IF s[Len(s)] = " " THEN Trim(SubSeq(s, 1, Len(s) - 1))
    ELSE s

\* String.prototype.split(sep) for a one-character separator.
RECURSIVE SplitFrom(_, _, _)
SplitFrom(s, sep, cur) ==
    IF s = <<>> THEN <<cur>>
    ELSE IF Head(s) = sep THEN <<cur>> \o SplitFrom(Tail(s), sep, <<>>)
    ELSE SplitFrom(Tail(s), sep, Append(cur, Head(s)))

Split(s, sep) == SplitFrom(s, sep, <<>>)

\* Array.prototype.join.
RECURSIVE Join(_, _)
Join(parts, sep) ==
    IF parts = <<>> THEN <<>>
    ELSE IF Len(parts) = 1 THEN parts[1]
    ELSE parts[1] \o sep \o Join(Tail(parts), sep)

SeqContains(seq, x) == \E i \in DOMAIN seq : seq[i] = x

\* filter(Boolean) on strings: the empty string is dropped.
NonEmptyText(t) == t # <<>>

\* parseCSV / normalizeList: split on ",", trim, lower-case, drop the empty
\* items.  An absent (null) or empty string gives [].
parseCSV(str) ==
    IF str = <<>> THEN <<>>
    ELSE LET parts == Split(str, ",")
             norm  == [i \in DOMAIN parts |-> ToLowerCase(Trim(parts[i]))]
         IN  SelectSeq(norm, NonEmptyText)

normalizeList(str) == parseCSV(str)

\* ------------------------------------------------------------ sample data

\* Prisma's null for an optional enum column (falsy in JavaScript).
NoMealType == "null"

MealSlots == {"breakfast", "lunch", "snack", "dinner"}

TxtEmpty        == <<>>
TxtNut          == <<"n","u","t">>
TxtWalnutOats   == <<"W","a","l","n","u","t",","," ","o","a","t","s">>
TxtBeansRice    == <<"B","e","a","n","s",","," ","r","i","c","e">>
TxtEgg          == <<"e","g","g">>
TxtRice         == <<"r","i","c","e">>
TxtNutBeansCsv  == <<"N","u","t",","," ","B","E","A","N","S">>
TxtBlankCsv     == <<" ",","," ">>
TxtHighSatiety  == <<"h","i","g","h","_","s","a","t","i","e","t","y">>
TxtQuickHighSat == <<"q","u","i","c","k",","," ","H","i","g","h","_",
                     "s","a","t","i","e","t","y">>

Macro(p, c, f) == [protein |-> p, carbs |-> c, fat |-> f]

\* A MacroProfile row: one target per meal slot.
Profile1 ==
    [breakfast |-> Macro(30, 50, 15), lunch  |-> Macro(40, 60, 20),
     snack     |-> Macro(10, 20, 5),  dinner |-> Macro(35, 40, 25)]

Recipe(title, ingredients, tags, mealType, p, c, f, cal) ==
    [title |-> title, ingredients |-> ingredients, tags |-> tags,
     mealType |-> mealType, proteinPerServing |-> p, carbsPerServing |-> c,
     fatPerServing |-> f, caloriesPerServing |-> cal]

RecWalnut == Recipe(<<"O","a","t","s">>, TxtWalnutOats, TxtEmpty,
                    "breakfast", 28, 48, 14, 430)
RecNut    == Recipe(<<"N","u","t">>, TxtNut, TxtHighSatiety,
                    "breakfast", 30, 50, 16, 400)
RecBeans  == Recipe(<<"B","o","w","l">>, TxtBeansRice, TxtQuickHighSat,
                    NoMealType, 38, 58, 20, 560)
RecEgg    == Recipe(<<"E","g","g">>, TxtEgg, TxtEmpty,
                    "breakfast", 200, 200, 200, 3400)
RecRice   == Recipe(<<"R","i","c","e">>, TxtRice, TxtEmpty,
                    "lunch", 40, 62, 20, 590)

\* As far from the breakfast target as RecWalnut, on the other side.
RecToast  == Recipe(<<"T","o","a","s","t">>, TxtRice, TxtEmpty,
                    "breakfast", 32, 52, 16, 480)

RecipeUniverse == {RecWalnut, RecNut, RecBeans, RecEgg, RecRice, RecToast}

\* A UserPreferences row.
Prefs(excluded, satiety) ==
    [excludedIngredients |-> excluded, satietyLevel |-> satiety]

ExclusionTexts == {TxtEmpty, TxtNut, TxtNutBeansCsv, TxtBlankCsv}

\* --------------------------------------------------------- recipe matcher

Abs(x) == IF x < 0 THEN -x ELSE x

\* Manhattan distance between the target and the recipe's macros.
macroDistance(target, recipe) ==
    Abs(recipe.proteinPerServing - target.protein)
  + Abs(recipe.carbsPerServing - target.carbs)
  + Abs(recipe.fatPerServing - target.fat)

\* part_005: an ingredient (split on ",") that includes an excluded term.
\* preferences is <<>> (null) or <<row>>.
violatesPreferences(recipe, preferences) ==
    IF preferences = <<>> THEN FALSE
    ELSE LET excluded == normalizeList(preferences[1].excludedIngredients)
             recipeIngredients == normalizeList(recipe.ingredients)
         IN  /\ excluded # <<>>
             /\ \E i \in DOMAIN recipeIngredients :
                  \E e \in DOMAIN excluded :
                     Includes(recipeIngredients[i], excluded[e])

\* The ids of a table's rows: a row's id is its position, and findMany
\* returns the rows in id order.
Ids(table) == [i \in DOMAIN table |-> i]

\* part_005: the satiety penalty added to the distance.
SatietyPenalty == 10

\* part_005: the greatest score still accepted.
MAX_DISTANCE == 80

satietyBonus(recipe, preferences) ==
    IF preferences # <<>> /\ preferences[1].satietyLevel = "high"
       /\ ~SeqContains(normalizeList(recipe.tags), TxtHighSatiety)
    THEN SatietyPenalty ELSE 0

score005(recipe, macros, preferences) ==
    macroDistance(macros, recipe) + satietyBonus(recipe, preferences)

\* Mutant: a score equal to the best one replaces it too.
RECURSIVE bestLoop005_LastWins(_, _, _, _, _, _)
bestLoop005_LastWins(table, ids, macros, preferences, best, bestScore) ==
    IF ids = <<>> THEN [best |-> best, bestScore |-> bestScore]
    ELSE LET sc == score005(table[Head(ids)], macros, preferences)
         IN  IF best = 0 \/ sc <= bestScore
             THEN bestLoop005_LastWins(table, Tail(ids), macros, preferences,
                                       Head(ids), sc)
             ELSE bestLoop005_LastWins(table, Tail(ids), macros, preferences,
                                       best, bestScore)

\* The loop of part_005:82-101: best starts null (0) with score Infinity
\* (modelled as "no best yet"); a strictly smaller score replaces it.
RECURSIVE bestLoop005(_, _, _, _, _, _)
bestLoop005(table, ids, macros, preferences, best, bestScore) ==
    IF ids = <<>> THEN [best |-> best, bestScore |-> bestScore]
    ELSE LET sc == score005(table[Head(ids)], macros, preferences)
         IN  IF best = 0 \/ sc < bestScore
             THEN bestLoop005(table, Tail(ids), macros, preferences,
                              Head(ids), sc)
             ELSE bestLoop005(table, Tail(ids), macros, preferences,
                              best, bestScore)

\* part_005:60-72: the rows left by the meal-type filter (an unset mealType
\* fits every slot) and by the preferences filter, in id order.
candidates005(table, mealType, preferences) ==
    LET TypeOk(i) == table[i].mealType = NoMealType
                       \/ table[i].mealType = mealType
        PrefOk(i) == ~violatesPreferences(table[i], preferences)
    IN  SelectSeq(SelectSeq(Ids(table), TypeOk), PrefOk)

\* part_005 findRecipeForMeal: the id of the chosen recipe, 0 for null.
findRecipeForMeal005(table, mealType, macros, preferences) ==
    LET allowed == candidates005(table, mealType, preferences)
        r       == bestLoop005(table, allowed, macros, preferences, 0, 0)
    IN  IF table = <<>> THEN 0
        ELSE IF allowed = <<>> THEN 0
        ELSE IF r.bestScore > MAX_DISTANCE THEN 0
        ELSE r.best

\* recipeService.js: an ingredient (split on ",") equal to an excluded term.
recipeHasExcludedIngredients(recipe, excludedIngredients) ==
    IF excludedIngredients = <<>> THEN FALSE
    ELSE LET recipeIngredients == parseCSV(recipe.ingredients)
         IN  \E i \in DOMAIN recipeIngredients :
                SeqContains(excludedIngredients, recipeIngredients[i])

recipeHasRequiredTags(recipe, tagsRequired) ==
    IF tagsRequired = <<>> THEN TRUE
    ELSE LET recipeTags == parseCSV(recipe.tags)
         IN  \A i \in DOMAIN tagsRequired :
                SeqContains(recipeTags, tagsRequired[i])

\* The number of entries of wanted (repeats counted) found among tags.
RECURSIVE CountIn(_, _)
CountIn(wanted, tags) ==
    IF wanted = <<>> THEN 0
    ELSE (IF SeqContains(tags, Head(wanted)) THEN 1 ELSE 0)
         + CountIn(Tail(wanted), tags)

\* recipeService.js: the bonus and the malus per tag.
TagStep == 5

\* scoreRecipe is sqrt(d2) + adj; the pair is kept so that scores are
\* compared exactly.
scoreRecipe(recipe, macroTarget, tagsPreferred, tagsAvoid) ==
    LET dP   == recipe.proteinPerServing - macroTarget.protein
        dC   == recipe.carbsPerServing - macroTarget.carbs
        dF   == recipe.fatPerServing - macroTarget.fat
        tags == parseCSV(recipe.tags)
    IN  [d2  |-> dP * dP + dC * dC + dF * dF,
         adj |-> TagStep * CountIn(tagsAvoid, tags)
                 - TagStep * CountIn(tagsPreferred, tags)]

\* floor(sqrt(n)).
ISqrt(n) == CHOOSE k \in 0..n : k * k <= n /\ (k + 1) * (k + 1) > n

\* l < 2 * m * sqrt(a) for m > 0, without leaving 32-bit integers.
LtScaledSqrt(l, m, a) ==
    IF l < 0 THEN TRUE
    ELSE IF l >= 2 * m * (ISqrt(a) + 1) THEN FALSE
    ELSE l * l < 4 * m * m * a

\* l = 2 * m * sqrt(a) for m > 0.
EqScaledSqrt(l, m, a) ==
    IF l < 0 \/ l >= 2 * m * (ISqrt(a) + 1) THEN FALSE
    ELSE l * l = 4 * m * m * a

\* sqrt(a) < sqrt(b) + m, for naturals a, b and an integer m >= 0.
LessSqrtPos(a, b, m) ==
    IF m = 0 THEN a < b
    ELSE IF a < m * m THEN TRUE
    ELSE LtScaledSqrt(a + m * m - b, m, a)

\* sqrt(a) = sqrt(b) + m, for m >= 0.
EqSqrtPos(a, b, m) ==
    IF m = 0 THEN a = b
    ELSE EqScaledSqrt(a - b - m * m, m, b)

\* s1 < s2 for two scores sqrt(d2) + adj.
ScoreLess(s1, s2) ==
    LET m == s2.adj - s1.adj
    IN  IF m >= 0 THEN LessSqrtPos(s1.d2, s2.d2, m)
        ELSE ~LessSqrtPos(s2.d2, s1.d2, -m) /\ ~EqSqrtPos(s2.d2, s1.d2, -m)

\* The loop of recipeService.js:79-89 over filtered[1..].
RECURSIVE bestLoop(_, _, _, _, _, _)
bestLoop(table, ids, macroTarget, tagsPreferred, tagsAvoid, best) ==
    IF ids = <<>> THEN best
    ELSE LET s  == scoreRecipe(table[Head(ids)], macroTarget,
                               tagsPreferred, tagsAvoid)
             bs == scoreRecipe(table[best], macroTarget,
                               tagsPreferred, tagsAvoid)
         IN  bestLoop(table, Tail(ids), macroTarget, tagsPreferred, tagsAvoid,
                      IF ScoreLess(s, bs) THEN Head(ids) ELSE best)

\* recipeService.js:65-75: findMany({where: {mealType}}) returns the rows of
\* that meal type; the filter drops excluded ingredients and missing tags.
candidatesBest(table, mealType, excludedIngredients, tagsRequired) ==
    LET TypeEq(i) == table[i].mealType = mealType
        Keep(i)   == /\ ~recipeHasExcludedIngredients(table[i],
                                                      excludedIngredients)
                     /\ recipeHasRequiredTags(table[i], tagsRequired)
    IN  SelectSeq(SelectSeq(Ids(table), TypeEq), Keep)

\* recipeService.js getBestRecipeForMeal: the id of the chosen recipe, 0 for
\* null.
getBestRecipeForMeal(table, mealType, macroTarget, excludedIngredients, tagsRequired, tagsPreferred, tagsAvoid) ==
    LET filtered == candidatesBest(table, mealType, excludedIngredients,
                                   tagsRequired)
    IN  IF filtered = <<>> THEN 0
        ELSE bestLoop(table, Tail(filtered), macroTarget, tagsPreferred,
                      tagsAvoid, Head(filtered))

\* recipeService.js findRecipeForMeal (the alias): preferences and
\* weeklyIntent are dropped, every list is passed empty.
findRecipeForMealAlias(table, mealType, macros, preferences) ==
    getBestRecipeForMeal(table, mealType, macros, <<>>, <<>>, <<>>, <<>>)


\* ------------------------------------------------------------------ state

VARIABLES
    macroProfiles,    \* MacroProfile rows (committed)
    userPreferences,  \* UserPreferences rows (committed)
    weeklyIntents,    \* WeeklyIntent rows (committed)
    recipes,          \* Recipe rows (committed); a row's id is its position
    mealPlans,        \* MealPlan header rows (committed); id is the position
    meals,            \* Meal rows (committed)
    reqs,             \* the requests in flight: request slot -> its locals
    started,          \* number of generation requests accepted so far
    lastRead,         \* what the latest GET of a plan by id returned
    mIn,              \* matcher specification: the arguments drawn
    mOut,             \* matcher specification: the call made and its result
    env,              \* process.env: are EDAMAM_APP_ID / EDAMAM_APP_KEY set
    recipeCache,      \* the NodeCache of search results
    now,              \* the clock, in seconds
    search,           \* the recipe search request in flight
    searches          \* number of search requests accepted so far

dbVars      == <<macroProfiles, userPreferences, weeklyIntents, recipes,
                 mealPlans, meals>>
serverVars  == <<macroProfiles, userPreferences, weeklyIntents, recipes,
                 mealPlans, meals, reqs, started, lastRead>>
matcherVars == <<mIn, mOut>>
searchVars  == <<env, recipeCache, now, search, searches>>
vars        == <<macroProfiles, userPreferences, weeklyIntents, recipes,
                 mealPlans, meals, reqs, started, lastRead, mIn, mOut,
                 env, recipeCache, now, search, searches>>

\* ------------------------------------------------------------------ dates

\* A JavaScript Date: a day (counted from 2025-10-31, so that 2025-11-17 is
\* day 17; the time of day and the time zone are left out) or Invalid Date.
DateOf(day) == [valid |-> TRUE, day |-> day]

InvalidDate == [valid |-> FALSE, day |-> 0]

\* The weekStart values a request body may carry; "" is an absent field.
WeekStartStrings == {"2025-11-17", "not-a-date", ""}

\* new Date(str): a parseable string gives its day, any other Invalid Date.
NewDate(str) ==
    IF str = "2025-11-17" THEN DateOf(17) ELSE InvalidDate

\* new Date() with no argument: the current day (2026-11-04 is day 369).
Today == DateOf(369)

\* isNaN(date.getTime())
IsNaNDate(d) == ~d.valid

\* date.setDate(date.getDate() + n): Invalid Date stays Invalid Date.
AddDays(d, n) == IF d.valid THEN DateOf(d.day + n) ELSE d

\* planService.js:8-12 parseDate: new Date, then setHours(0, 0, 0, 0); no
\* validity check.
parseDate(isoDateStr) == NewDate(isoDateStr)

\* --------------------------------------------------------- stored records

IntentEarly == [weekStart |-> DateOf(10), goal |-> "lazy"]
IntentLate  == [weekStart |-> DateOf(24), goal |-> "gourmet"]

PrefsNutBeans == Prefs(TxtNutBeansCsv, "high")

\* A stored Recipe row: `by` is the serial number of the request that
\* created it (0: present before any request); it is not a column.
Stored(recipe) ==
    [title |-> recipe.title, ingredients |-> recipe.ingredients,
     tags |-> recipe.tags, mealType |-> recipe.mealType,
     proteinPerServing |-> recipe.proteinPerServing,
     carbsPerServing |-> recipe.carbsPerServing,
     fatPerServing |-> recipe.fatPerServing,
     caloriesPerServing |-> recipe.caloriesPerServing,
     source |-> "manual", by |-> 0]

SeedRecipes == <<Stored(RecWalnut), Stored(RecBeans), Stored(RecEgg)>>

\* prisma.macroProfile.findFirst / userPreferences.findFirst: <<>> for null,
\* <<row>> otherwise.
FindFirst(table) == IF table = <<>> THEN <<>> ELSE <<table[1]>>

\* weeklyIntent.findFirst({orderBy: {weekStart: 'desc'}}): the id of the
\* latest intent, 0 for null.
LatestIntent(table) ==
    IF table = <<>> THEN 0
    ELSE CHOOSE i \in DOMAIN table :
           \A j \in DOMAIN table :
              \/ table[j].weekStart.day < table[i].weekStart.day
              \/ (table[j].weekStart.day = table[i].weekStart.day /\ i <= j)

\* weeklyIntent.findFirst({where: {weekStart: {lte}}, orderBy: desc}).
LatestIntentUpTo(table, weekStart) ==
    LET Upto(i) == table[i].weekStart.day <= weekStart.day
        ids    == SelectSeq(Ids(table), Upto)
    IN  IF ids = <<>> THEN 0
        ELSE CHOOSE i \in DOMAIN table :
               /\ Upto(i)
               /\ \A j \in DOMAIN table :
                    Upto(j) =>
                      \/ table[j].weekStart.day < table[i].weekStart.day
                      \/ (table[j].weekStart.day = table[i].weekStart.day
                            /\ i <= j)

\* weeklyIntent?.goal || 'normal'
GoalOf(intentId) ==
    IF intentId = 0 THEN "normal" ELSE weeklyIntents[intentId].goal

\* --------------------------------------------------------------- requests

ReqIds == DOMAIN reqs

NoTx == [open |-> FALSE, plan |-> <<>>, recipes |-> <<>>, meals |-> <<>>]

\* A request slot with no request in it.
Idle ==
    [kind |-> "idle", version |-> "", matcher |-> "", weekStartStr |-> "",
     bodyMealsPerDay |-> 0, mealsPerDay |-> 0, serial |-> 0, pc |-> "idle",
     weekStart |-> InvalidDate, profile |-> <<>>, preferences |-> <<>>,
     weeklyIntent |-> 0, planId |-> 0, i |-> 0, mealsToCreate |-> <<>>,
     attempt |-> 0, waits |-> <<>>, extCalls |-> 0, aiResponse |-> "none",
     lastFailure |-> "none", recipeRef |-> 0, tx |-> NoTx, data |-> <<>>,
     status |-> 0, error |-> "none", body |-> <<>>]

\* The handler ends: the response leaves with this status and error, and
\* the locals are dropped.
Respond(q, status, error, body) ==
    [q EXCEPT !.pc = "done", !.status = status, !.error = error,
              !.body = body, !.i = 0, !.mealsToCreate = <<>>, !.tx = NoTx,
              !.recipeRef = 0,
              !.profile = <<>>, !.preferences = <<>>]

\* ------------------------------------------------ week plan (three versions)

\* Mutant: the snack slot is dropped from the loop.
MEAL_TYPES_NoSnack == <<"breakfast", "lunch", "dinner">>

\* planService.js:91 / part_004:66-91: the four meal types, in loop order.
MEAL_TYPES == <<"breakfast", "lunch", "snack", "dinner">>

\* The days of the week loop: dayOffset < 7.
DaysPerWeek == 7

\* The generateWeekPlan versions and the matcher each may be linked with:
\* planService.js imports findRecipeForMeal from './recipeService.js', which
\* the repository holds in two versions; part_004 imports
\* getBestRecipeForMeal, which only recipeService.js has.
PlanBuilds ==
    {[version |-> "A", matcher |-> "alias"],
     [version |-> "A", matcher |-> "part_005"],
     [version |-> "B", matcher |-> "alias"],
     [version |-> "B", matcher |-> "part_005"],
     [version |-> "C", matcher |-> "getBest"]}

\* The recipe lookup of one loop iteration: the id chosen, 0 for null.
LookupRecipe(q, mealType, target) ==
    IF q.matcher = "part_005"
    THEN findRecipeForMeal005(recipes, mealType, target, q.preferences)
    ELSE IF q.matcher = "alias"
    THEN findRecipeForMealAlias(recipes, mealType, target, q.preferences)
    ELSE getBestRecipeForMeal(recipes, mealType, target,
             parseCSV(IF q.preferences = <<>> THEN <<>>
                      ELSE q.preferences[1].excludedIngredients),
             <<>>, <<>>, <<>>)

\* Mutant: fat counted at 4 kcal per gram.
MacroCalories_Fat4(t) == t.protein * 4 + t.carbs * 4 + t.fat * 4

\* protein * 4 + carbs * 4 + fat * 9
MacroCalories(t) == t.protein * 4 + t.carbs * 4 + t.fat * 9

\* Version A: recipe?.caloriesPerServing ?? the macro calories; versions B
\* and C: always the macro calories.
MealCalories(q, recipeId, target) ==
    IF q.version = "A" /\ recipeId # 0
    THEN recipes[recipeId].caloriesPerServing
    ELSE MacroCalories(target)

\* The meal pushed by loop iteration i (0-based): day i \div 4, slot i % 4.
MealOf(q, i, recipeId) ==
    LET mealType == MEAL_TYPES[(i % Len(MEAL_TYPES)) + 1]
        target   == q.profile[1][mealType]
    IN  [mealPlanId |-> q.planId,
         date |-> AddDays(q.weekStart, i \div Len(MEAL_TYPES)),
         type |-> mealType, protein |-> target.protein,
         carbs |-> target.carbs, fat |-> target.fat,
         calories |-> MealCalories(q, recipeId, target),
         recipeId |-> recipeId, by |-> q.serial]

\* POST /generate-week up to the creation of the header: the route's check
\* of weekStart, the date parse (validated in versions B and C only), the
\* three findFirst reads and the MacroProfile check.
PlanBegin(r) ==
    /\ reqs[r].pc = "idle"
    /\ started < MaxRequests
    /\ \E build \in PlanBuilds, ws \in WeekStartStrings, mpd \in 3..6 :
         LET date    == IF build.version = "A" THEN parseDate(ws)
                        ELSE NewDate(ws)
             profile == FindFirst(macroProfiles)
             intent  == IF build.version = "A"
                        THEN LatestIntentUpTo(weeklyIntents, date)
                        ELSE LatestIntent(weeklyIntents)
             q       == [Idle EXCEPT !.kind = "plan",
                              !.version = build.version,
                              !.matcher = build.matcher,
                              !.weekStartStr = ws, !.mealsPerDay = mpd,
                              !.bodyMealsPerDay = mpd,
                              !.serial = started + 1, !.weekStart = date]
         IN  reqs' = [reqs EXCEPT ![r] =
               IF ws = ""
               THEN Respond(q, 400, "WeekStartRequired", <<>>)
               ELSE IF build.version # "A" /\ IsNaNDate(date)
               THEN Respond(q, 500, "InvalidDate", <<>>)
               ELSE IF profile = <<>>
               THEN Respond(q, 500, "MissingConfiguration", <<>>)
               ELSE IF IsNaNDate(date)
               \* version A: Prisma rejects the Invalid Date in the lte filter
               THEN Respond(q, 500, "PrismaInvalidDate", <<>>)
               ELSE [q EXCEPT !.pc = "createHeader", !.profile = profile,
                              !.preferences = FindFirst(userPreferences),
                              !.weeklyIntent = intent]]
    /\ started' = started + 1
    /\ UNCHANGED <<dbVars, lastRead, matcherVars, searchVars>>

\* prisma.mealPlan.create, outside any transaction: the header is committed
\* at once.  The create may fail (a database error).
PlanCreateHeader(r) ==
    /\ reqs[r].kind = "plan" /\ reqs[r].pc = "createHeader"
    /\ \/ /\ reqs' = [reqs EXCEPT ![r] = Respond(@, 500, "DbError", <<>>)]
          /\ UNCHANGED mealPlans
       \/ /\ mealPlans' = Append(mealPlans,
                 [weekStart |-> reqs[r].weekStart,
                  weekEnd |-> AddDays(reqs[r].weekStart, DaysPerWeek - 1),
                  goal |-> GoalOf(reqs[r].weeklyIntent),
                  weeklyIntentId |-> reqs[r].weeklyIntent,
                  by |-> reqs[r].serial,
                  nPlanned |-> DaysPerWeek * Len(MEAL_TYPES)])
          /\ reqs' = [reqs EXCEPT ![r].pc = "lookup",
                                  ![r].planId = Len(mealPlans) + 1]
    /\ UNCHANGED <<macroProfiles, userPreferences, weeklyIntents, recipes,
                   meals, started, lastRead, matcherVars, searchVars>>

\* One iteration of the day/meal loop: the recipe lookup (a database read,
\* which may fail) and the push onto mealsToCreate.
PlanLookup(r) ==
    /\ reqs[r].kind = "plan" /\ reqs[r].pc = "lookup"
    /\ reqs[r].i < DaysPerWeek * Len(MEAL_TYPES)
    /\ \/ reqs' = [reqs EXCEPT ![r] = Respond(@, 500, "DbError", <<>>)]
       \/ LET q        == reqs[r]
              mealType == MEAL_TYPES[(q.i % Len(MEAL_TYPES)) + 1]
              recipeId == LookupRecipe(q, mealType, q.profile[1][mealType])
          IN  reqs' = [reqs EXCEPT
                 ![r].mealsToCreate = Append(@, MealOf(q, q.i, recipeId)),
                 ![r].i = @ + 1]
    /\ UNCHANGED <<dbVars, started, lastRead, matcherVars, searchVars>>

\* prisma.meal.createMany: all the meals in one statement, or none.
PlanCreateMany(r) ==
    /\ reqs[r].kind = "plan" /\ reqs[r].pc = "lookup"
    /\ reqs[r].i = DaysPerWeek * Len(MEAL_TYPES)
    /\ \/ /\ reqs' = [reqs EXCEPT ![r] = Respond(@, 500, "DbError", <<>>)]
          /\ UNCHANGED meals
       \/ /\ meals' = meals \o reqs[r].mealsToCreate
          /\ reqs' = [reqs EXCEPT ![r].pc = "reload"]
    /\ UNCHANGED <<macroProfiles, userPreferences, weeklyIntents, recipes,
                   mealPlans, started, lastRead, matcherVars, searchVars>>

\* The meals of a plan, as findUnique({include: {meals}}) returns them.
MealsOfPlan(id) == SelectSeq(meals, LAMBDA m : m.mealPlanId = id)

\* prisma.mealPlan.findUnique and the 201 response with the complete plan.
PlanReload(r) ==
    /\ reqs[r].kind = "plan" /\ reqs[r].pc = "reload"
    /\ \/ reqs' = [reqs EXCEPT ![r] = Respond(@, 500, "DbError", <<>>)]
       \/ reqs' = [reqs EXCEPT ![r] =
                     Respond(@, 201, "none", MealsOfPlan(reqs[r].planId))]
    /\ UNCHANGED <<dbVars, started, lastRead, matcherVars, searchVars>>

\* ------------------------------------------------- AI plan (two versions)

TxtOatsUpper == <<"O","A","T","S">>
TxtSoup      == <<"S","o","u","p">>
TxtSoupLower == <<"s","o","u","p">>
TxtMix       == <<"M","i","x">>
TxtOats      == <<"o","a","t","s">>
TxtWalnuts   == <<"W","a","l","n","u","t","s">>

\* One meal of a generated plan (MealSchema); instructions are left out.
AiMeal(mealType, title, ingredients, cal, p, c, f) ==
    [mealType |-> mealType,
     recipe |-> [title |-> title, ingredients |-> ingredients,
                 calories |-> cal, protein |-> p, carbs |-> c, fats |-> f]]

AiDay(dayNumber, dayMeals) == [dayNumber |-> dayNumber, meals |-> dayMeals]

\* What JSON.parse of the completion may give.  "ok": two days, three
\* meals, the first with macros of its own (not the profile's target), the
\* third with the title of the second in another case; "nut":
\* an ingredient with "nut" inside; "brunch": a mealType outside the enum,
\* and the same ingredient; "day8": a dayNumber of 8.
AiResponseNames == {"ok", "nut", "brunch", "day8"}

AiResponse(name) ==
    IF name = "ok"
    THEN [days |-> <<
            AiDay(1, <<AiMeal("breakfast", TxtOatsUpper, <<TxtOats, TxtEgg>>,
                              420, 28, 52, 12),
                       AiMeal("lunch", TxtSoup, <<TxtRice>>,
                              500, 40, 60, 20)>>),
            AiDay(2, <<AiMeal("dinner", TxtSoupLower, <<TxtRice>>,
                              450, 35, 40, 25)>>)>>]
    ELSE IF name = "nut"
    THEN [days |-> <<
            AiDay(1, <<AiMeal("breakfast", TxtMix, <<TxtOats, TxtWalnuts>>,
                              400, 30, 50, 15)>>)>>]
    ELSE IF name = "brunch"
    THEN [days |-> <<
            AiDay(1, <<AiMeal("brunch", TxtMix, <<TxtOats, TxtWalnuts>>,
                              400, 30, 50, 15)>>)>>]
    ELSE [days |-> <<
            AiDay(8, <<AiMeal("snack", TxtSoup, <<TxtRice>>,
                              200, 10, 20, 5)>>)>>]

\* The service versions: part_006 and part_000.
AiVersions == {"part_006", "part_000"}

\* MealPlanSchema.parse succeeds: every mealType is in the enum and, in
\* part_006 only, every dayNumber is within 1..7.
MealPlanSchemaOk(version, plan) ==
    \A d \in DOMAIN plan.days :
      /\ version = "part_006"
           => (plan.days[d].dayNumber >= 1 /\ plan.days[d].dayNumber <= 7)
      /\ \A m \in DOMAIN plan.days[d].meals :
           plan.days[d].meals[m].mealType
             \in {"breakfast", "lunch", "dinner", "snack"}

\* Mutant: the exclusion re-check never throws.
validateExclusionsThrows_Never(plan, preferences) == FALSE

\* _validateExclusions throws: some meal's ingredients, joined with " " and
\* lower-cased, include an excluded term.  preferences is <<>> or <<row>>.
validateExclusionsThrows(plan, preferences) ==
    IF preferences = <<>> THEN FALSE
    ELSE IF preferences[1].excludedIngredients = <<>> THEN FALSE
    ELSE LET parts    == Split(preferences[1].excludedIngredients, ",")
             norm     == [i \in DOMAIN parts |-> ToLowerCase(Trim(parts[i]))]
             excluded == SelectSeq(norm, NonEmptyText)
         IN  \E d \in DOMAIN plan.days :
               \E m \in DOMAIN plan.days[d].meals :
                 LET ingredients ==
                       ToLowerCase(Join(plan.days[d].meals[m].recipe.ingredients,
                                        <<" ">>))
                 IN  \E e \in DOMAIN excluded :
                       Includes(ingredients, excluded[e])

\* The meals of a plan in the order of the two nested loops, each with the
\* dayNumber of its day.
RECURSIVE FlatMeals(_)
FlatMeals(days) ==
    IF days = <<>> THEN <<>>
    ELSE [k \in DOMAIN Head(days).meals |->
            [dayNumber |-> Head(days).dayNumber,
             meal |-> Head(days).meals[k]]]
         \o FlatMeals(Tail(days))

\* The controller's status for an error thrown by the service.
AiStatusOf(error) ==
    IF error = "ZodError" THEN 400
    ELSE IF error = "ExcludedIngredient" THEN 400
    ELSE IF error = "MissingConfiguration" THEN 404
    ELSE IF error = "RateLimited" THEN 503
    ELSE 500

\* The JSON body of an error response, as the controller of the request
\* builds it; the name of the error thrown stands for its message.
\* POST /generate-week answers {error: error.message || '...'}; the AI
\* controller answers a fixed text for a ZodError and for status 429, the
\* error's message for an excluded ingredient and a missing MacroProfile,
\* and a fixed text with the error's message beside it otherwise.
ErrorBody(q) ==
    IF q.kind = "plan"
    THEN [error |-> q.error, message |-> "none"]
    ELSE IF q.error = "ZodError"
    THEN [error |-> "Invalid request data", message |-> "none"]
    ELSE IF q.error \in {"ExcludedIngredient", "MissingConfiguration"}
    THEN [error |-> q.error, message |-> "none"]
    ELSE IF q.error = "RateLimited"
    THEN [error |-> "AI service temporarily unavailable due to rate limits",
          message |-> "none"]
    ELSE [error |-> "Failed to generate meal plan", message |-> q.error]

\* The service throws and the controller answers.  The index of the meal
\* the store was at stays on record.
AiFail(q, error) ==
    [Respond(q, AiStatusOf(error), error, <<>>) EXCEPT !.i = q.i]

\* The mealsPerDay values a request body may carry; 0 is an absent field
\* (the schema's default, 4, applies).
AiMealsPerDayInputs == {0, 2, 3, 6, 7}

\* Mutant: the schema has no range for mealsPerDay.
GenerateMealPlanSchemaOk_NoRange(mpd) == TRUE

\* GenerateMealPlanSchema: mealsPerDay is absent or within 3..6.
GenerateMealPlanSchemaOk(mpd) == mpd = 0 \/ (mpd >= 3 /\ mpd <= 6)

\* Mutant: one more attempt.
MaxRetries_Four == 3 + 1

\* The greatest number of attempts of callOpenAIWithRetry.
MaxRetries == 3

\* The wait before the next attempt, in milliseconds.
RetryDelay(version, attempt) ==
    IF version = "part_006" THEN (2 ^ attempt) * 1000 ELSE 1500 * attempt

\* Mutant: the service does not check that a MacroProfile exists.
AiBegin_NoProfileCheck(r) ==
    /\ reqs[r].pc = "idle"
    /\ started < MaxRequests
    /\ \E version \in AiVersions, ws \in WeekStartStrings :
         reqs' = [reqs EXCEPT ![r] =
           [Idle EXCEPT !.kind = "ai", !.version = version,
                        !.weekStartStr = ws, !.mealsPerDay = 4,
                        !.serial = started + 1,
                        !.weekStart = IF ws = "" THEN Today ELSE NewDate(ws),
                        !.pc = "callAI", !.attempt = 1,
                        !.preferences = FindFirst(userPreferences),
                        !.weeklyIntent = LatestIntent(weeklyIntents)]]
    /\ started' = started + 1
    /\ UNCHANGED <<dbVars, lastRead, matcherVars, searchVars>>

\* POST /api/ai/mealplan/generate up to the first call of the provider: the
\* controller's schema, the three findFirst reads, the MacroProfile check
\* and the date range (new Date(weekStart), not validated).
AiBegin(r) ==
    /\ reqs[r].pc = "idle"
    /\ started < MaxRequests
    /\ \E version \in AiVersions, ws \in WeekStartStrings,
          mpd \in AiMealsPerDayInputs :
         LET q == [Idle EXCEPT !.kind = "ai", !.version = version,
                        !.weekStartStr = ws, !.bodyMealsPerDay = mpd,
                        !.mealsPerDay = IF mpd = 0 THEN 4 ELSE mpd,
                        !.serial = started + 1,
                        !.weekStart = IF ws = "" THEN Today ELSE NewDate(ws)]
         IN  reqs' = [reqs EXCEPT ![r] =
               IF ~GenerateMealPlanSchemaOk(mpd)
               THEN AiFail(q, "ZodError")
               ELSE IF FindFirst(macroProfiles) = <<>>
               THEN AiFail(q, "MissingConfiguration")
               ELSE [q EXCEPT !.pc = "callAI", !.attempt = 1,
                              !.preferences = FindFirst(userPreferences),
                              !.weeklyIntent = LatestIntent(weeklyIntents)]]
    /\ started' = started + 1
    /\ UNCHANGED <<dbVars, lastRead, matcherVars, searchVars>>

\* What follows a completion that parsed as JSON: MealPlanSchema.parse,
\* then _validateExclusions, then the call of _storeMealPlan.
AiValidated(q, name) ==
    IF ~MealPlanSchemaOk(q.version, AiResponse(name))
    THEN AiFail([q EXCEPT !.aiResponse = name], "ZodError")
    ELSE IF validateExclusionsThrows(AiResponse(name), q.preferences)
    THEN AiFail([q EXCEPT !.aiResponse = name], "ExcludedIngredient")
    ELSE [q EXCEPT !.aiResponse = name, !.pc = "txBegin"]

\* One attempt of callOpenAIWithRetry: the completion arrives, or the call
\* fails with status 429, with code ECONNRESET, or otherwise; the first two
\* are retried after a wait while attempts remain.  lastFailure is the
\* failure a retry in progress follows.
AiCall(r) ==
    /\ reqs[r].kind = "ai" /\ reqs[r].pc = "callAI"
    /\ LET q == [reqs[r] EXCEPT !.extCalls = @ + 1, !.lastFailure = "none"]
       IN  \/ \E name \in AiResponseNames :
                reqs' = [reqs EXCEPT ![r] = AiValidated(q, name)]
           \/ reqs' = [reqs EXCEPT ![r] = AiFail(q, "InvalidJson")]
           \/ \E failure \in {"RateLimited", "ECONNRESET", "OpenAIError"} :
                reqs' = [reqs EXCEPT ![r] =
                  IF failure \in {"RateLimited", "ECONNRESET"}
                     /\ q.attempt < MaxRetries
                  THEN [q EXCEPT
                          !.waits = Append(@, RetryDelay(q.version, q.attempt)),
                          !.attempt = @ + 1, !.lastFailure = failure]
                  ELSE AiFail(q, failure)]
    /\ UNCHANGED <<dbVars, started, lastRead, matcherVars, searchVars>>

\* Mutant: the header is created with the client, outside the transaction.
AiTxBegin_HeaderOutsideTx(r) ==
    /\ reqs[r].kind = "ai" /\ reqs[r].pc = "txBegin"
    /\ ~IsNaNDate(reqs[r].weekStart)
    /\ mealPlans' = Append(mealPlans,
           [weekStart |-> reqs[r].weekStart,
            weekEnd |-> AddDays(reqs[r].weekStart, 6),
            goal |-> GoalOf(reqs[r].weeklyIntent),
            weeklyIntentId |-> reqs[r].weeklyIntent,
            by |-> reqs[r].serial,
            nPlanned |-> Len(FlatMeals(AiResponse(reqs[r].aiResponse).days))])
    /\ reqs' = [reqs EXCEPT ![r].pc = "txFind", ![r].i = 1,
                            ![r].tx = [NoTx EXCEPT !.open = TRUE]]
    /\ UNCHANGED <<macroProfiles, userPreferences, weeklyIntents, recipes,
                   meals, started, lastRead, matcherVars, searchVars>>

\* _storeMealPlan, first statement: the transaction opens and
\* tx.mealPlan.create writes the header inside it.  The create may fail,
\* and fails on an Invalid Date (Prisma rejects it); the transaction then
\* rolls back.
AiTxBegin(r) ==
    /\ reqs[r].kind = "ai" /\ reqs[r].pc = "txBegin"
    /\ LET q      == reqs[r]
           nMeals == Len(FlatMeals(AiResponse(q.aiResponse).days))
           header == [weekStart |-> q.weekStart,
                      weekEnd |-> AddDays(q.weekStart, 6),
                      goal |-> GoalOf(q.weeklyIntent),
                      weeklyIntentId |-> q.weeklyIntent,
                      by |-> q.serial, nPlanned |-> nMeals]
       IN  \/ reqs' = [reqs EXCEPT ![r] = AiFail(q, "DbError")]
           \/ reqs' = [reqs EXCEPT ![r] =
                IF IsNaNDate(q.weekStart) THEN AiFail(q, "PrismaInvalidDate")
                ELSE [q EXCEPT
                       !.pc = IF nMeals = 0 THEN "txCommit" ELSE "txFind",
                       !.i = 1,
                       !.tx = [open |-> TRUE, plan |-> <<header>>,
                               recipes |-> <<>>, meals |-> <<>>]]]
    /\ UNCHANGED <<dbVars, started, lastRead, matcherVars, searchVars>>

\* equals with mode 'insensitive'.
EqualsInsensitive(a, b) == ToLowerCase(a) = ToLowerCase(b)

\* Mutant: the lookup by title finds nothing.
TxFindRecipe_NotFound(q, title) == 0

\* tx.recipe.findFirst by title: the committed rows, then the rows this
\* transaction created.  A committed row's reference is its id; the k-th
\* row created in the transaction is referred to as -k until the commit
\* gives it its id.  0: no such recipe.
TxFindRecipe(q, title) ==
    IF \E id \in DOMAIN recipes : EqualsInsensitive(recipes[id].title, title)
    THEN CHOOSE id \in DOMAIN recipes :
           /\ EqualsInsensitive(recipes[id].title, title)
           /\ \A j \in DOMAIN recipes :
                EqualsInsensitive(recipes[j].title, title) => id <= j
    ELSE IF \E k \in DOMAIN q.tx.recipes :
              EqualsInsensitive(q.tx.recipes[k].title, title)
    THEN 0 - (CHOOSE k \in DOMAIN q.tx.recipes :
                /\ EqualsInsensitive(q.tx.recipes[k].title, title)
                /\ \A j \in DOMAIN q.tx.recipes :
                     EqualsInsensitive(q.tx.recipes[j].title, title) => k <= j)
    ELSE 0

\* The meal the loops are at.
CurrentMeal(q) == FlatMeals(AiResponse(q.aiResponse).days)[q.i]

\* The recipe lookup of one meal; it may fail.
AiFindRecipe(r) ==
    /\ reqs[r].kind = "ai" /\ reqs[r].pc = "txFind"
    /\ \/ reqs' = [reqs EXCEPT ![r] = AiFail(@, "DbError")]
       \/ LET ref == TxFindRecipe(reqs[r],
                                  CurrentMeal(reqs[r]).meal.recipe.title)
          IN  reqs' = [reqs EXCEPT
                 ![r].recipeRef = ref,
                 ![r].pc = IF ref = 0 THEN "txRecipe" ELSE "txMeal"]
    /\ UNCHANGED <<dbVars, started, lastRead, matcherVars, searchVars>>

\* The Recipe row tx.recipe.create writes: the ingredients joined with
\* ", "; no tags.
AiRecipeRow(q) ==
    LET meal == CurrentMeal(q).meal
    IN  [title |-> meal.recipe.title,
         ingredients |-> Join(meal.recipe.ingredients, <<",", " ">>),
         tags |-> TxtEmpty, mealType |-> meal.mealType,
         proteinPerServing |-> meal.recipe.protein,
         carbsPerServing |-> meal.recipe.carbs,
         fatPerServing |-> meal.recipe.fats,
         caloriesPerServing |-> meal.recipe.calories,
         source |-> "openai", by |-> q.serial]

\* tx.recipe.create for a title that was not found; it may fail.
AiCreateRecipe(r) ==
    /\ reqs[r].kind = "ai" /\ reqs[r].pc = "txRecipe"
    /\ \/ reqs' = [reqs EXCEPT ![r] = AiFail(@, "DbError")]
       \/ reqs' = [reqs EXCEPT
             ![r].tx.recipes = Append(@, AiRecipeRow(reqs[r])),
             ![r].recipeRef = 0 - (Len(reqs[r].tx.recipes) + 1),
             ![r].pc = "txMeal"]
    /\ UNCHANGED <<dbVars, started, lastRead, matcherVars, searchVars>>

\* The Meal row tx.meal.create writes: the macros and calories are the
\* generated recipe's, the date is weekStart + (dayNumber - 1).
AiMealRow(q) ==
    LET cur == CurrentMeal(q)
    IN  [mealPlanId |-> 0,
         date |-> AddDays(q.weekStart, cur.dayNumber - 1),
         type |-> cur.meal.mealType, protein |-> cur.meal.recipe.protein,
         carbs |-> cur.meal.recipe.carbs, fat |-> cur.meal.recipe.fats,
         calories |-> cur.meal.recipe.calories,
         recipeId |-> q.recipeRef, by |-> q.serial]

\* tx.meal.create; it may fail.  The loops then go on to the next meal.
AiCreateMeal(r) ==
    /\ reqs[r].kind = "ai" /\ reqs[r].pc = "txMeal"
    /\ \/ reqs' = [reqs EXCEPT ![r] = AiFail(@, "DbError")]
       \/ reqs' = [reqs EXCEPT
             ![r].tx.meals = Append(@, AiMealRow(reqs[r])),
             ![r].i = @ + 1,
             ![r].recipeRef = 0,
             ![r].pc =
               IF reqs[r].i = Len(FlatMeals(AiResponse(reqs[r].aiResponse).days))
               THEN "txCommit" ELSE "txFind"]
    /\ UNCHANGED <<dbVars, started, lastRead, matcherVars, searchVars>>

\* The rows of a transaction's meals once committed: the plan's id and the
\* ids of the recipes created in the transaction are filled in.
CommittedMeals(q, planId) ==
    [k \in DOMAIN q.tx.meals |->
       [q.tx.meals[k] EXCEPT
          !.mealPlanId = planId,
          !.recipeId = IF @ < 0 THEN Len(recipes) - @ ELSE @]]

\* The last statement (tx.mealPlan.findUnique) and the commit: every row
\* of the transaction becomes visible at once, or, on a failure, none.  A
\* header written outside the transaction is already in mealPlans.
AiCommit(r) ==
    /\ reqs[r].kind = "ai" /\ reqs[r].pc = "txCommit"
    /\ \/ /\ reqs' = [reqs EXCEPT ![r] = AiFail(@, "DbError")]
          /\ UNCHANGED <<mealPlans, recipes, meals>>
       \/ LET q      == reqs[r]
              planId == IF q.tx.plan = <<>> THEN Len(mealPlans)
                        ELSE Len(mealPlans) + 1
              rows   == CommittedMeals(q, planId)
          IN  /\ mealPlans' = mealPlans \o q.tx.plan
              /\ recipes' = recipes \o q.tx.recipes
              /\ meals' = meals \o rows
              /\ reqs' = [reqs EXCEPT ![r] =
                            Respond([@ EXCEPT !.planId = planId],
                                    201, "none", rows)]
    /\ UNCHANGED <<macroProfiles, userPreferences, weeklyIntents, started,
                   lastRead, matcherVars, searchVars>>

\* POST /preferences, first statement: userPreferences.findFirst().  data
\* is the request body.
PostPreferencesFind(r) ==
    /\ reqs[r].pc = "idle"
    /\ \E data \in {PrefsNutBeans, Prefs(TxtEmpty, "low")} :
         \/ reqs' = [reqs EXCEPT ![r] =
                       Respond([Idle EXCEPT !.kind = "prefs"], 500,
                               "DbError", <<>>)]
         \/ reqs' = [reqs EXCEPT ![r] =
                       [Idle EXCEPT !.kind = "prefs", !.pc = "save",
                                    !.data = <<data>>,
                                    !.preferences = FindFirst(userPreferences)]]
    /\ UNCHANGED <<dbVars, started, lastRead, matcherVars, searchVars>>

\* POST /preferences, second statement: update of the record found (its
\* id is its position, 1 for the first record) or create; either may fail.
PostPreferencesSave(r) ==
    /\ reqs[r].kind = "prefs" /\ reqs[r].pc = "save"
    /\ \/ /\ reqs' = [reqs EXCEPT ![r] = Respond(@, 500, "DbError", <<>>)]
          /\ UNCHANGED userPreferences
       \/ IF reqs[r].preferences # <<>>
          THEN /\ userPreferences' =
                    [userPreferences EXCEPT ![1] = reqs[r].data[1]]
               /\ reqs' = [reqs EXCEPT ![r] =
                             Respond(@, 200, "none", reqs[r].data)]
          ELSE /\ userPreferences' = Append(userPreferences, reqs[r].data[1])
               /\ reqs' = [reqs EXCEPT ![r] =
                             Respond(@, 201, "none", reqs[r].data)]
    /\ UNCHANGED <<macroProfiles, weeklyIntents, recipes, mealPlans, meals,
                   started, lastRead, matcherVars, searchVars>>

\* The response has been sent: the slot is free again.
Finish(r) ==
    /\ reqs[r].pc = "done"
    /\ reqs' = [reqs EXCEPT ![r] = Idle]
    /\ UNCHANGED <<dbVars, started, lastRead, matcherVars, searchVars>>

\* GET /meal-plans/:id (and GET /api/ai/mealplan/:id): one findUnique with
\* the meals included; 404 when there is no such plan.  What is kept of the
\* response: whether a plan came back and with how many meals (nPlanned is
\* the number its generation set out to write), and whether a generation
\* was running at the time.
NoRead == [found |-> FALSE, nMeals |-> 0, nPlanned |-> 0, running |-> FALSE]

\* A generation request is between its first step and its response.
GenerationRunning == \E r \in ReqIds : reqs[r].pc \notin {"idle", "done"}

GetMealPlan(id) ==
    /\ lastRead' =
         IF id \in DOMAIN mealPlans
         THEN [found |-> TRUE, nMeals |-> Len(MealsOfPlan(id)),
               nPlanned |-> mealPlans[id].nPlanned,
               running |-> GenerationRunning]
         ELSE NoRead
    /\ UNCHANGED <<dbVars, reqs, started, matcherVars, searchVars>>

\* ----------------------------------------------------------- recipe search

Digits == <<"0","1","2","3","4","5","6","7","8","9">>

\* parseInt of a text of decimal digits; parseInt('') is NaN and is not
\* asked for here.
RECURSIVE parseInt(_)
parseInt(t) ==
    IF t = <<>> THEN 0
    ELSE LET last == t[Len(t)]
         IN  parseInt(SubSeq(t, 1, Len(t) - 1)) * 10
               + (CHOOSE i \in DOMAIN Digits : Digits[i] = last) - 1

\* String(n) for n >= 0, as string concatenation converts a number.
RECURSIVE NumberToText(_)
NumberToText(n) ==
    IF n < 10 THEN <<Digits[n + 1]>>
    ELSE NumberToText(n \div 10) \o <<Digits[(n % 10) + 1]>>

\* SearchQuerySchema: limit is parseInt(val) when given ('' and an absent
\* field are both falsy), 20 otherwise.
LimitOf(val) == IF val # <<>> THEN parseInt(val) ELSE 20

\* Mutant: the limit is left out of the key.
CacheKey_QueryOnly(query, limit) ==
    <<"e","d","a","m","a","m",":">> \o query

\* 'edamam:' + query + ':' + limit
CacheKey(query, limit) ==
    <<"e","d","a","m","a","m",":">> \o query \o <<":">> \o NumberToText(limit)

\* new NodeCache({stdTTL: 86400, maxKeys: 1000})
StdTTL  == 86400
MaxKeys == 1000

\* The cache is the set of the entries for the modelled keys, each with
\* its value and the time it expires at, and the number of other live keys.
\* recipeCache.get(key): the value of an entry that has not expired, as
\* <<value>>; <<>> for undefined.
CacheGet(key) ==
    LET live == {e \in recipeCache.entries :
                   e.key = key /\ ~(e.expires < now)}
    IN  IF live # {} THEN <<(CHOOSE e \in live : TRUE).value>> ELSE <<>>

\* recipeCache.set(key, value) on a cache that is not full.  asked is the
\* (query, limit) of the call that stores, kept with the entry for the
\* properties only.
CacheSet(cache, key, value, asked) ==
    [cache EXCEPT
       !.entries = {e \in @ : e.key # key}
                     \cup {[key |-> key, value |-> value,
                            expires |-> now + StdTTL, asked |-> asked]}]

\* The answers the provider may give: no hit, or one hit with its label,
\* calories, yield and PROCNT quantity.
EdamamAnswers ==
    {<<>>, <<[label |-> TxtRice, calories |-> 700, yield |-> 2, procnt |-> 31]>>}

\* The normalized recipes of the hits: servings = yield || 1, the calories
\* and the protein per serving, rounded as Math.round rounds.
NormalizeHits(hits) ==
    [k \in DOMAIN hits |->
       LET servings == IF hits[k].yield = 0 THEN 1 ELSE hits[k].yield
           RoundDiv(n) == (2 * n + servings) \div (2 * servings)
       IN  [title |-> hits[k].label, calories |-> RoundDiv(hits[k].calories),
            protein |-> RoundDiv(hits[k].procnt), servings |-> servings,
            source |-> "edamam"]]

\* The greatest number of attempts of _callEdamamWithRetry.
EdamamMaxRetries == 2

\* Mutant: the app id alone counts as the credentials.
Configured_AppIdOnly(e) == e.appId

\* if (!appId || !appKey) return []
Configured(e) == e.appId /\ e.appKey

\* No search request.  upCalls, gets and sets count the upstream calls
\* and the calls of recipeCache.get and recipeCache.set of the request;
\* answer is the hits of the upstream answer.
Quiet ==
    [pc |-> "idle", q |-> <<>>, limit |-> 0, attempt |-> 0, waits |-> <<>>,
     upCalls |-> 0, gets |-> 0, sets |-> 0, upstream |-> "none",
     answer |-> <<>>,
     status |-> 0, body |-> <<>>, header |-> "none"]

\* Mutant: the controller never sets the header.
searchExternalHeader_Never(found, q) == "none"

\* searchExternal: X-External-Api-Status is set to 'degraded' when the
\* result is empty and q is given; it is not set otherwise.
searchExternalHeader(found, q) ==
    IF Len(found) = 0 /\ q # <<>> THEN "degraded" ELSE "none"

\* searchExternalRecipes returned: res.json(recipes).  outcome is what
\* happened to the upstream call.
SearchAnswer(sq, found, outcome) ==
    [sq EXCEPT !.pc = "done", !.status = 200, !.body = found,
               !.header = searchExternalHeader(found, sq.q),
               !.upstream = outcome]

\* GET /api/recipes/search up to the upstream call: the query schema (q
\* is a string of at least one character), the credentials and the cache
\* (get deletes an entry it finds expired).
SearchBegin ==
    /\ search.pc = "idle"
    /\ searches < MaxSearches
    /\ \E q \in {TxtEmpty, TxtRice, TxtEgg}, val \in {TxtEmpty, <<"1","0">>} :
         LET sq  == [Quiet EXCEPT !.q = q, !.limit = LimitOf(val)]
             got == [sq EXCEPT !.gets = 1]
             key == CacheKey(q, LimitOf(val))
         IN  IF ~(Len(q) >= 1)
             THEN /\ search' = [sq EXCEPT !.pc = "done", !.status = 400]
                  /\ UNCHANGED recipeCache
             ELSE IF ~Configured(env)
             THEN /\ search' = SearchAnswer(sq, <<>>, "unconfigured")
                  /\ UNCHANGED recipeCache
             ELSE IF CacheGet(key) # <<>>
             THEN /\ search' = SearchAnswer(got, CacheGet(key)[1], "cache")
                  /\ UNCHANGED recipeCache
             ELSE /\ search' = [got EXCEPT !.pc = "callEdamam", !.attempt = 1]
                  /\ recipeCache' =
                       [recipeCache EXCEPT
                          !.entries = {e \in @ : e.key # key}]
    /\ searches' = searches + 1
    /\ UNCHANGED <<serverVars, matcherVars, env, now>>

\* One attempt of _callEdamamWithRetry and what follows it.  An answer is
\* normalized and stored in the cache (the set throws ECACHEFULL when the
\* cache holds maxKeys keys); a failure with code ECONNRESET or status 503
\* is retried after 500 * attempt ms while attempts remain; every error
\* is caught and gives [].
SearchCall ==
    /\ search.pc = "callEdamam"
    /\ LET sq  == [search EXCEPT !.upCalls = @ + 1]
           key == CacheKey(search.q, search.limit)
       IN  \/ \E hits \in EdamamAnswers :
                LET set == [sq EXCEPT !.sets = 1, !.answer = hits] IN
                IF recipeCache.others + Cardinality(recipeCache.entries)
                     >= MaxKeys
                THEN /\ search' = SearchAnswer(set, <<>>, "ok")
                     /\ UNCHANGED recipeCache
                ELSE /\ search' = SearchAnswer(set, NormalizeHits(hits), "ok")
                     /\ recipeCache' = CacheSet(recipeCache, key,
                                                NormalizeHits(hits),
                                                <<search.q, search.limit>>)
           \/ \E failure \in {"ECONNRESET", "503", "401"} :
                /\ search' =
                     IF failure \in {"ECONNRESET", "503"}
                        /\ sq.attempt < EdamamMaxRetries
                     THEN [sq EXCEPT !.waits = Append(@, 500 * sq.attempt),
                                     !.attempt = @ + 1]
                     ELSE SearchAnswer(sq, <<>>, "failed")
                /\ UNCHANGED recipeCache
    /\ UNCHANGED <<serverVars, matcherVars, env, now, searches>>

\* The response has been sent.
SearchFinish ==
    /\ search.pc = "done"
    /\ search' = Quiet
    /\ UNCHANGED <<serverVars, matcherVars, env, recipeCache, now, searches>>

\* Time passes, half of the time-to-live at a time.
Tick ==
    /\ now < MaxTicks * (StdTTL \div 2)
    /\ now' = now + (StdTTL \div 2)
    /\ UNCHANGED <<serverVars, matcherVars, env, recipeCache, search, searches>>

\* No search in use: the state of the search variables in the other
\* specifications.
SearchIdle ==
    /\ env = [appId |-> FALSE, appKey |-> FALSE]
    /\ recipeCache = [entries |-> {}, others |-> 0]
    /\ now = 0
    /\ search = Quiet
    /\ searches = 0

\* ---------------------------------------------- matcher as a pure function

\* The sequences without repeats of at most n elements of S.
RECURSIVE SeqsUpTo(_, _)
SeqsUpTo(S, n) ==
    IF n = 0 THEN {<<>>}
    ELSE LET shorter == SeqsUpTo(S, n - 1)
             longest == {t \in shorter : Len(t) = n - 1}
         IN  shorter \cup
             UNION {{Append(q, x) : x \in {y \in S : ~SeqContains(q, y)}} :
                    q \in longest}

Pools == SeqsUpTo(RecipeUniverse, MaxPool)

PreferenceChoices ==
    {<<>>} \cup {<<Prefs(e, s)>> : e \in ExclusionTexts, s \in {"high", "low"}}

TagChoices == {<<>>, <<TxtHighSatiety>>}

NoCall == [fn |-> "none", recipeId |-> 0]

MatcherIdle ==
    /\ mIn = [pool |-> <<>>, mealType |-> "breakfast", preferences |-> <<>>,
              tagsRequired |-> <<>>, tagsPreferred |-> <<>>, tagsAvoid |-> <<>>]
    /\ mOut = NoCall

ServerIdle ==
    /\ macroProfiles = <<>>
    /\ userPreferences = <<>>
    /\ weeklyIntents = <<>>
    /\ recipes = <<>>
    /\ mealPlans = <<>>
    /\ meals = <<>>
    /\ reqs = <<Idle>>
    /\ started = 0
    /\ lastRead = NoRead

InitMatcher ==
    /\ ServerIdle
    /\ SearchIdle
    /\ mIn \in [pool : Pools, mealType : MealSlots,
                preferences : PreferenceChoices, tagsRequired : TagChoices,
                tagsPreferred : TagChoices, tagsAvoid : TagChoices]
    /\ mOut = NoCall

\* The macro target of the drawn slot, as generateWeekPlan reads it from the
\* profile.
MatcherTarget == Profile1[mIn.mealType]

\* The excluded-ingredients list as part_004:48 builds it for
\* getBestRecipeForMeal.
MatcherExcluded ==
    IF mIn.preferences = <<>> THEN <<>>
    ELSE parseCSV(mIn.preferences[1].excludedIngredients)

CallFindRecipeForMeal005 ==
    /\ mOut.fn = "none"
    /\ mOut' = [fn |-> "findRecipeForMeal005",
                recipeId |-> findRecipeForMeal005(mIn.pool, mIn.mealType,
                                                  MatcherTarget,
                                                  mIn.preferences)]
    /\ UNCHANGED <<mIn, serverVars, searchVars>>

CallGetBestRecipeForMeal ==
    /\ mOut.fn = "none"
    /\ mOut' = [fn |-> "getBestRecipeForMeal",
                recipeId |-> getBestRecipeForMeal(mIn.pool, mIn.mealType,
                                MatcherTarget, MatcherExcluded,
                                mIn.tagsRequired, mIn.tagsPreferred,
                                mIn.tagsAvoid)]
    /\ UNCHANGED <<mIn, serverVars, searchVars>>

CallFindRecipeForMealAlias ==
    /\ mOut.fn = "none"
    /\ mOut' = [fn |-> "findRecipeForMealAlias",
                recipeId |-> findRecipeForMealAlias(mIn.pool, mIn.mealType,
                                MatcherTarget, mIn.preferences)]
    /\ UNCHANGED <<mIn, serverVars, searchVars>>

NextMatcher ==
    \/ CallFindRecipeForMeal005
    \/ CallGetBestRecipeForMeal
    \/ CallFindRecipeForMealAlias

SpecMatcher == InitMatcher /\ [][NextMatcher]_vars


\* ------------------------------------------------------------- the server

Init ==
    /\ macroProfiles \in {<<>>, <<Profile1>>}
    /\ userPreferences \in {<<>>, <<PrefsNutBeans>>}
    /\ weeklyIntents \in {<<>>, <<IntentEarly, IntentLate>>}
    /\ recipes \in {<<>>, SeedRecipes}
    /\ mealPlans = <<>>
    /\ meals = <<>>
    /\ reqs = <<Idle>>
    /\ started = 0
    /\ lastRead = NoRead
    /\ MatcherIdle
    /\ SearchIdle

Next ==
    \/ \E r \in ReqIds : PlanBegin(r)
    \/ \E r \in ReqIds : PlanCreateHeader(r)
    \/ \E r \in ReqIds : PlanLookup(r)
    \/ \E r \in ReqIds : PlanCreateMany(r)
    \/ \E r \in ReqIds : PlanReload(r)
    \/ \E r \in ReqIds : AiBegin(r)
    \/ \E r \in ReqIds : AiCall(r)
    \/ \E r \in ReqIds : AiTxBegin(r)
    \/ \E r \in ReqIds : AiFindRecipe(r)
    \/ \E r \in ReqIds : AiCreateRecipe(r)
    \/ \E r \in ReqIds : AiCreateMeal(r)
    \/ \E r \in ReqIds : AiCommit(r)
    \/ \E r \in ReqIds : Finish(r)
    \/ \E id \in 1..MaxRequests : GetMealPlan(id)

Spec == Init /\ [][Next]_vars

\* ------------------------------------------------------ the recipe search

InitSearch ==
    /\ ServerIdle
    /\ MatcherIdle
    /\ env \in [appId : BOOLEAN, appKey : BOOLEAN]
    /\ recipeCache \in [entries : {{}}, others : {0, MaxKeys - 1, MaxKeys}]
    /\ now = 0
    /\ search = Quiet
    /\ searches = 0

NextSearch ==
    \/ SearchBegin
    \/ SearchCall
    \/ SearchFinish
    \/ Tick

SpecSearch == InitSearch /\ [][NextSearch]_vars

\* ---------------------------------------------- concurrent POST /preferences

InitPrefs ==
    /\ macroProfiles = <<>>
    /\ userPreferences \in {<<>>, <<PrefsNutBeans>>}
    /\ weeklyIntents = <<>>
    /\ recipes = <<>>
    /\ mealPlans = <<>>
    /\ meals = <<>>
    /\ reqs = [r \in 1..MaxPosts |-> Idle]
    /\ started = 0
    /\ lastRead = NoRead
    /\ MatcherIdle
    /\ SearchIdle

NextPrefs ==
    \/ \E r \in ReqIds : PostPreferencesFind(r)
    \/ \E r \in ReqIds : PostPreferencesSave(r)

SpecPrefs == InitPrefs /\ [][NextPrefs]_vars

\* -------------------------------------------------- concurrent AI plan stores

\* Two AI generation requests in flight together, each with its completion
\* parsed and validated and about to call _storeMealPlan; no recipe is
\* stored yet.
InitStores ==
    /\ macroProfiles = <<Profile1>>
    /\ userPreferences = <<>>
    /\ weeklyIntents = <<>>
    /\ recipes = <<>>
    /\ mealPlans = <<>>
    /\ meals = <<>>
    /\ \E v1 \in AiVersions, v2 \in AiVersions, n1 \in {"ok", "nut"} :
         reqs = [r \in 1..2 |->
                   [Idle EXCEPT !.kind = "ai",
                                !.version = IF r = 1 THEN v1 ELSE v2,
                                !.weekStartStr = "2025-11-17",
                                !.weekStart = NewDate("2025-11-17"),
                                !.mealsPerDay = 4, !.serial = r,
                                !.profile = FindFirst(macroProfiles),
                                !.attempt = 1, !.extCalls = 1,
                                !.aiResponse = IF r = 1 THEN n1 ELSE "ok",
                                !.pc = "txBegin"]]
    /\ started = 2
    /\ lastRead = NoRead
    /\ MatcherIdle
    /\ SearchIdle

NextStores ==
    \/ \E r \in ReqIds : AiTxBegin(r)
    \/ \E r \in ReqIds : AiFindRecipe(r)
    \/ \E r \in ReqIds : AiCreateRecipe(r)
    \/ \E r \in ReqIds : AiCreateMeal(r)
    \/ \E r \in ReqIds : AiCommit(r)

SpecStores == InitStores /\ [][NextStores]_vars

\* ----------------------------------------------------- claims: the matcher

\* The recipe has an ingredient text that contains, ignoring case, one of the
\* terms as a substring.
HasExcludedTerm(recipe, terms) ==
    \E t \in DOMAIN terms :
        Includes(ToLowerCase(recipe.ingredients), terms[t])

\* A score sqrt(d2) + adj above the acceptance threshold of 80.
EuclidAbove80(sc) == ScoreLess([d2 |-> MAX_DISTANCE * MAX_DISTANCE, adj |-> 0], sc)

\* C2: the matcher never returns a recipe whose ingredient text contains, as
\* a case-insensitive substring, a term of the exclusion list it was given.
C2_MatcherRejectsExcludedSubstring ==
    (mOut.fn \in {"findRecipeForMeal005", "getBestRecipeForMeal"}
       /\ mOut.recipeId # 0)
    => ~HasExcludedTerm(mIn.pool[mOut.recipeId], MatcherExcluded)

\* C4: when every candidate left by the filters scores above 80, the matcher
\* returns null.
C4_ThresholdReturnsNull ==
    /\ (mOut.fn = "findRecipeForMeal005"
          /\ \A i \in DOMAIN mIn.pool :
               SeqContains(candidates005(mIn.pool, mIn.mealType,
                                         mIn.preferences), i)
               => score005(mIn.pool[i], MatcherTarget, mIn.preferences)
                    > MAX_DISTANCE)
       => mOut.recipeId = 0
    /\ (mOut.fn = "getBestRecipeForMeal"
          /\ \A i \in DOMAIN mIn.pool :
               SeqContains(candidatesBest(mIn.pool, mIn.mealType,
                                          MatcherExcluded, mIn.tagsRequired), i)
               => EuclidAbove80(scoreRecipe(mIn.pool[i], MatcherTarget,
                                            mIn.tagsPreferred, mIn.tagsAvoid)))
       => mOut.recipeId = 0


\* ------------------------------------------------------ claims: the server

\* The request in slot r has been answered.
Done(r) == reqs[r].pc = "done"

\* The number of meals of a plan body with this date and this type.
CountMeals(body, date, type) ==
    Cardinality({k \in DOMAIN body :
                   body[k].date = date /\ body[k].type = type})

\* part_006:180-189: the slot list resolved for a number of meals per day.
SlotsFor(mealsPerDay) ==
    IF mealsPerDay = 3 THEN <<"breakfast", "lunch", "dinner">>
    ELSE IF mealsPerDay = 4 THEN <<"breakfast", "lunch", "snack", "dinner">>
    ELSE IF mealsPerDay = 5
    THEN <<"breakfast", "snack", "lunch", "snack", "dinner">>
    ELSE <<"breakfast", "snack", "lunch", "snack", "dinner", "snack">>

Occurrences(seq, x) == Cardinality({k \in DOMAIN seq : seq[k] = x})

\* Rows of the three plan tables created by the request with this serial.
RowsBy(serial) ==
    Cardinality({k \in DOMAIN mealPlans : mealPlans[k].by = serial})
  + Cardinality({k \in DOMAIN meals : meals[k].by = serial})
  + Cardinality({k \in DOMAIN recipes : recipes[k].by = serial})

StoredExclusions ==
    IF userPreferences = <<>> THEN <<>>
    ELSE parseCSV(userPreferences[1].excludedIngredients)

\* C3: with a non-empty excludedIngredients list stored, no meal of a
\* generated plan references a recipe whose ingredient text contains
\* (ignoring case) an entry of that list.
C3_StoredExclusionsReachMatcher ==
    \A r \in ReqIds :
      (Done(r) /\ reqs[r].kind = "plan" /\ reqs[r].status = 201
         /\ StoredExclusions # <<>>)
      => \A k \in DOMAIN reqs[r].body :
           reqs[r].body[k].recipeId # 0
           => ~HasExcludedTerm(recipes[reqs[r].body[k].recipeId],
                               StoredExclusions)

\* C5: when generateWeekPlan fails after it has started, neither the header
\* row of that plan nor any of its meals is persisted.
C5_FailedPlanLeavesNoRows ==
    \A r \in ReqIds :
      (Done(r) /\ reqs[r].kind = "plan" /\ reqs[r].status # 201)
      => RowsBy(reqs[r].serial) = 0

\* C7: a read of a plan by id during a running generation returns no plan
\* or the plan with all of its meals.
C7_NoPartialPlanRead ==
    (lastRead.running /\ lastRead.found)
    => lastRead.nMeals = lastRead.nPlanned


\* The response of the request in slot r, when the completion arrived.
ResponseOf(r) == AiResponse(reqs[r].aiResponse)

\* Some ingredient of some meal of the plan contains, ignoring case, one
\* of the terms.
PlanHasExcludedTerm(plan, terms) ==
    \E d \in DOMAIN plan.days :
      \E m \in DOMAIN plan.days[d].meals :
        \E g \in DOMAIN plan.days[d].meals[m].recipe.ingredients :
          \E t \in DOMAIN terms :
            Includes(ToLowerCase(plan.days[d].meals[m].recipe.ingredients[g]),
                     terms[t])

\* C6: storing a validated plan on the AI path is all-or-nothing.  No row
\* of the request is visible before its response; after a failure none of
\* its header, meals and recipes exists; after a success the header, one
\* meal per generated meal, and a recipe for each meal exist.
C6_StoreAllOrNothing ==
    \A r \in ReqIds :
      reqs[r].kind = "ai"
      => /\ ~Done(r) => RowsBy(reqs[r].serial) = 0
         /\ (Done(r) /\ reqs[r].status # 201) => RowsBy(reqs[r].serial) = 0
         /\ (Done(r) /\ reqs[r].status = 201)
            => LET planId == reqs[r].planId
                   flat   == FlatMeals(ResponseOf(r).days)
               IN  /\ planId \in DOMAIN mealPlans
                   /\ mealPlans[planId].by = reqs[r].serial
                   /\ Len(MealsOfPlan(planId)) = Len(flat)
                   /\ \A k \in DOMAIN flat :
                        LET row == MealsOfPlan(planId)[k]
                        IN  /\ row.type = flat[k].meal.mealType
                            /\ row.recipeId \in DOMAIN recipes
                            /\ EqualsInsensitive(recipes[row.recipeId].title,
                                                 flat[k].meal.recipe.title)

C6_Witness ==
    \E r \in ReqIds :
      /\ Done(r) /\ reqs[r].kind = "ai" /\ reqs[r].error = "DbError"
      /\ reqs[r].aiResponse = "ok" /\ reqs[r].i = 3
      /\ RowsBy(reqs[r].serial) = 0

\* C8: on the AI path a generated plan with an excluded term in a meal's
\* ingredients is rejected with a client error (400) and no MealPlan, Meal
\* or Recipe row is written; the schema is validated first, so a plan that
\* also fails the schema is rejected by the schema.
C8_ExclusionRecheckBeforePersistence ==
    \A r \in ReqIds :
      (reqs[r].kind = "ai" /\ reqs[r].aiResponse # "none"
         /\ PlanHasExcludedTerm(ResponseOf(r), StoredExclusions))
      => /\ Done(r)
         /\ reqs[r].status = 400
         /\ reqs[r].error =
              IF MealPlanSchemaOk(reqs[r].version, ResponseOf(r))
              THEN "ExcludedIngredient" ELSE "ZodError"
         /\ RowsBy(reqs[r].serial) = 0

C8_Witness ==
    \E r \in ReqIds :
      /\ Done(r) /\ reqs[r].kind = "ai" /\ reqs[r].aiResponse = "nut"
      /\ StoredExclusions # <<>>
      /\ reqs[r].error = "ExcludedIngredient" /\ reqs[r].extCalls = 1

\* The request in slot r got as far as the generation service: the route
\* passed a weekStart to generateWeekPlan, or the controller's schema
\* accepted the body and generateMealPlan was called.
GenerationCalled(r) ==
    \/ reqs[r].kind = "plan" /\ reqs[r].weekStartStr # ""
    \/ reqs[r].kind = "ai" /\ reqs[r].mealsPerDay \in 3..6

\* No row, no call of the provider, no retry.
NothingDone(r) ==
    /\ RowsBy(reqs[r].serial) = 0
    /\ reqs[r].extCalls = 0
    /\ reqs[r].attempt = 0 /\ reqs[r].waits = <<>>

\* C9 as stated: with no MacroProfile, plan generation fails with the
\* missing-configuration error, creates no row, makes no call of the
\* provider and is not retried.
C9_MissingConfiguration ==
    \A r \in ReqIds :
      (Done(r) /\ GenerationCalled(r) /\ macroProfiles = <<>>)
      => /\ reqs[r].error = "MissingConfiguration"
         /\ NothingDone(r)

\* C9 amended: with no MacroProfile, plan generation creates no row, makes
\* no call of the provider and is not retried; it fails with the
\* missing-configuration error, except in the generateWeekPlan versions
\* that validate weekStart first, where an unparseable weekStart is
\* reported as an invalid date.
C9_MissingConfigurationAfterDate ==
    \A r \in ReqIds :
      (Done(r) /\ GenerationCalled(r) /\ macroProfiles = <<>>)
      => /\ reqs[r].status >= 400
         /\ reqs[r].error =
              IF reqs[r].kind = "plan" /\ reqs[r].version \in {"B", "C"}
                 /\ IsNaNDate(NewDate(reqs[r].weekStartStr))
              THEN "InvalidDate" ELSE "MissingConfiguration"
         /\ NothingDone(r)

C9_Witness ==
    \E r \in ReqIds :
      /\ Done(r) /\ reqs[r].kind = "ai" /\ macroProfiles = <<>>
      /\ reqs[r].status = 404 /\ reqs[r].error = "MissingConfiguration"

\* C10: for every weekStart that does not parse to a date, plan generation
\* fails (any error response counts as the invalid-input error here)
\* before any MealPlan row is created and before any external call.
C10_InvalidDateFailsFirst ==
    \A r \in ReqIds :
      (GenerationCalled(r) /\ reqs[r].weekStartStr # ""
         /\ IsNaNDate(NewDate(reqs[r].weekStartStr)))
      => /\ reqs[r].extCalls = 0
         /\ \A k \in DOMAIN mealPlans : mealPlans[k].by # reqs[r].serial
         /\ Done(r) => reqs[r].status >= 400

\* C11: POST /api/ai/mealplan/generate answers 400 to every mealsPerDay
\* outside 3..6, before any generation call and any row; it accepts every
\* mealsPerDay within 3..6 as given, and takes 4 when the field is omitted.
C11_MealsPerDayRange ==
    \A r \in ReqIds :
      reqs[r].kind = "ai"
      => LET body == reqs[r].bodyMealsPerDay
         IN  /\ (body # 0 /\ (body < 3 \/ body > 6))
                => /\ Done(r) /\ reqs[r].status = 400
                   /\ reqs[r].extCalls = 0 /\ reqs[r].attempt = 0
                   /\ RowsBy(reqs[r].serial) = 0
             /\ (body >= 3 /\ body <= 6)
                => /\ reqs[r].mealsPerDay = body
                   /\ (Done(r) /\ reqs[r].extCalls = 0)
                        => reqs[r].error = "MissingConfiguration"
             /\ body = 0
                => /\ reqs[r].mealsPerDay = 4
                   /\ (Done(r) /\ reqs[r].extCalls = 0)
                        => reqs[r].error = "MissingConfiguration"

C11_Witness ==
    \E r \in ReqIds :
      /\ Done(r) /\ reqs[r].kind = "ai" /\ reqs[r].bodyMealsPerDay = 7
      /\ reqs[r].status = 400 /\ macroProfiles # <<>>

\* The macro profile's target for a meal slot.
TargetOf(type) == macroProfiles[1][type]

\* A meal without a recipe has the calories protein*4 + carbs*4 + fat*9
\* of its slot's target.
NullRecipeCalories(meal) ==
    meal.recipeId = 0
    => meal.calories = TargetOf(meal.type).protein * 4
                     + TargetOf(meal.type).carbs * 4
                     + TargetOf(meal.type).fat * 9

\* The meals generateWeekPlan has assembled, and the meals persisted.
PlanMeals ==
    UNION {{reqs[r].mealsToCreate[k] : k \in DOMAIN reqs[r].mealsToCreate} :
             r \in {q \in ReqIds : reqs[q].kind = "plan"}}
      \cup {meals[k] : k \in DOMAIN meals}

\* C12 as stated: every meal of a plan assembled by generateWeekPlan that
\* has no recipe (recipeId null) has calories = protein*4 + carbs*4 + fat*9
\* of its slot's target, and the target 30, 50, 15 gives 380.
C12_CaloriesFromTarget380 ==
    \A meal \in PlanMeals :
      /\ NullRecipeCalories(meal)
      /\ (meal.recipeId = 0 /\ meal.protein = 30 /\ meal.carbs = 50
            /\ meal.fat = 15)
         => meal.calories = 380

\* C12 amended: every meal of a plan assembled by generateWeekPlan that has
\* no recipe has calories = protein*4 + carbs*4 + fat*9 of its slot's
\* target; the target 30, 50, 15 gives 455.
C12_CaloriesFromTarget ==
    \A meal \in PlanMeals :
      /\ NullRecipeCalories(meal)
      /\ (meal.recipeId = 0 /\ meal.protein = 30 /\ meal.carbs = 50
            /\ meal.fat = 15)
         => meal.calories = 455

C12_Witness ==
    \E k \in DOMAIN meals :
      /\ meals[k].recipeId = 0 /\ meals[k].type = "breakfast"
      /\ meals[k].protein = 30 /\ meals[k].carbs = 50 /\ meals[k].fat = 15
      /\ meals[k].calories = 455

\* C13: every Meal persisted by plan generation, by generateWeekPlan and
\* by the AI path alike, has protein, carbs and fat equal to the macro
\* profile's target for its slot.
C13_MealMacrosAreTargets ==
    \A k \in DOMAIN meals :
      /\ meals[k].protein = TargetOf(meals[k].type).protein
      /\ meals[k].carbs = TargetOf(meals[k].type).carbs
      /\ meals[k].fat = TargetOf(meals[k].type).fat

\* C14: every MealPlan persisted by the AI path has exactly 7 x mealsPerDay
\* meals, and every meal's date is one of weekStart+0 .. weekStart+6.
C14_AiPlanIsSevenDays ==
    \A r \in ReqIds :
      (Done(r) /\ reqs[r].kind = "ai" /\ reqs[r].status = 201)
      => LET rows == MealsOfPlan(reqs[r].planId)
         IN  /\ Len(rows) = 7 * reqs[r].mealsPerDay
             /\ \A k \in DOMAIN rows :
                  \E d \in 0..6 : rows[k].date = AddDays(reqs[r].weekStart, d)

C16_RetryOnlyTransient ==
    \A r \in ReqIds :
      reqs[r].kind = "ai"
      => /\ reqs[r].extCalls <= 3
         /\ reqs[r].pc = "callAI"
            => /\ reqs[r].extCalls = reqs[r].attempt - 1
               /\ Len(reqs[r].waits) = reqs[r].extCalls
               /\ reqs[r].attempt > 1
                  => reqs[r].lastFailure \in {"RateLimited", "ECONNRESET"}
         /\ (reqs[r].pc # "callAI" /\ reqs[r].extCalls > 0)
            => Len(reqs[r].waits) = reqs[r].extCalls - 1
         /\ (Done(r) /\ reqs[r].error \in {"OpenAIError", "InvalidJson"})
            => /\ RowsBy(reqs[r].serial) = 0
               /\ Len(reqs[r].waits) = reqs[r].extCalls - 1

C16_Witness ==
    \E r \in ReqIds :
      /\ Done(r) /\ reqs[r].kind = "ai" /\ reqs[r].error = "OpenAIError"
      /\ reqs[r].extCalls = 2 /\ Len(reqs[r].waits) = 1

\* Every attempt of the request in slot r failed with a retryable error.
RetriesExhausted(r) ==
    /\ Done(r) /\ reqs[r].kind = "ai"
    /\ reqs[r].error \in {"RateLimited", "ECONNRESET"}

\* C17: when every attempt fails with a retryable error, the waits
\* performed are 2 s, then 4 s, then 8 s.
C17_BackoffTwoFourEight ==
    \A r \in ReqIds :
      RetriesExhausted(r) => reqs[r].waits = <<2000, 4000, 8000>>

\* C18: when the retries are exhausted on a rate-limit or on a
\* transient-network failure, the answer is 503 and no plan is persisted.
C18_ExhaustedIsUnavailable ==
    \A r \in ReqIds :
      RetriesExhausted(r)
      => /\ reqs[r].status = 503
         /\ RowsBy(reqs[r].serial) = 0

\* ------------------------------------------------ claims: the recipe search

\* C19: for every valid query, when the call of the upstream provider fails
\* (after its retries or on an error that is not retried), the answer is
\* 200 with the body [] and X-External-Api-Status: degraded; no search with
\* a valid query is answered with an error status.
C19_UpstreamFailureIsDegraded ==
    /\ (search.pc = "done" /\ search.upstream = "failed")
       => /\ search.status = 200
          /\ search.body = <<>>
          /\ search.header = "degraded"
    /\ (search.pc = "done" /\ Len(search.q) >= 1) => search.status = 200

C19_Witness ==
    /\ search.pc = "done" /\ search.upstream = "failed"
    /\ search.upCalls = 2 /\ search.waits = <<500>>
    /\ search.header = "degraded"

\* C20: X-External-Api-Status is 'degraded' only when the upstream call
\* failed (a provider that is not configured is counted with the
\* failures here), and it is not 'degraded' on a response whose upstream
\* call succeeded or that was served from the cache, a search with zero
\* hits included (a response without the header is counted as 'ok' here).
C20_DegradedOnlyOnFailure ==
    (search.pc = "done" /\ search.header = "degraded")
    => search.upstream \in {"failed", "unconfigured"}

C22_UnconfiguredIsEmpty ==
    (/\ search.pc # "idle"
     /\ Len(search.q) >= 1
     /\ ~(env.appId /\ env.appKey))
    => /\ search.pc = "done"
       /\ search.body = <<>>
       /\ search.gets = 0 /\ search.sets = 0 /\ search.upCalls = 0
       /\ recipeCache.entries = {}

C22_Witness ==
    /\ search.pc = "done" /\ search.q = TxtRice /\ search.body = <<>>
    /\ env.appId /\ ~env.appKey
    /\ search.gets = 0 /\ searches = 2

\* C29: whenever the upstream call succeeds, the search returns the
\* normalized hits of the upstream answer, whatever the cache holds.
C29_SuccessReturnsHits ==
    (search.pc = "done" /\ search.upstream = "ok")
    => search.body = NormalizeHits(search.answer)

\* -------------------------------------------------- claims: weekly intents

\* C23: the WeeklyIntent of a generated plan is the stored intent with the
\* greatest weekStart that is <= the plan's weekStart, its goal is that
\* intent's goal, and when there is no such intent weeklyIntentId is null
\* and the goal is 'normal'.
C23_IntentUpToWeekStart ==
    \A p \in DOMAIN mealPlans :
      LET plan   == mealPlans[p]
          upTo   == {i \in DOMAIN weeklyIntents :
                       weeklyIntents[i].weekStart.day <= plan.weekStart.day}
      IN  IF upTo = {}
          THEN plan.weeklyIntentId = 0 /\ plan.goal = "normal"
          ELSE /\ plan.weeklyIntentId \in upTo
               /\ \A j \in upTo :
                    weeklyIntents[j].weekStart.day
                      <= weeklyIntents[plan.weeklyIntentId].weekStart.day
               /\ plan.goal = weeklyIntents[plan.weeklyIntentId].goal

\* ------------------------------------------------- claims: error responses

\* C24: a 500 response for an unexpected internal fault (a database
\* error, a date Prisma rejects, an unparseable or unreachable AI answer)
\* carries a generic text only: the message of the internal error is in
\* no field of the body.
C24_GenericServerError ==
    \A r \in ReqIds :
      (/\ Done(r) /\ reqs[r].status = 500
       /\ reqs[r].error \in {"DbError", "PrismaInvalidDate", "InvalidJson",
                             "ECONNRESET"})
      => /\ ErrorBody(reqs[r]).error # reqs[r].error
         /\ ErrorBody(reqs[r]).message # reqs[r].error

\* ------------------------------------------- claims: the matcher, selection

\* C25: the recipe a matcher returns is a candidate that survived the
\* filters, no candidate has a smaller score, and of the candidates with
\* that score it is the first in pool order.  getBestRecipeForMeal returns
\* a recipe whenever a candidate exists; the part_005 matcher whenever the
\* smallest score is within its threshold.
C25_MinimumFirstWins ==
    LET pool == mIn.pool
        id   == mOut.recipeId
        c005 == candidates005(pool, mIn.mealType, mIn.preferences)
        s005(i) == score005(pool[i], MatcherTarget, mIn.preferences)
        cBest == IF mOut.fn = "getBestRecipeForMeal"
                 THEN candidatesBest(pool, mIn.mealType, MatcherExcluded,
                                     mIn.tagsRequired)
                 ELSE candidatesBest(pool, mIn.mealType, <<>>, <<>>)
        sBest(i) == IF mOut.fn = "getBestRecipeForMeal"
                    THEN scoreRecipe(pool[i], MatcherTarget,
                                     mIn.tagsPreferred, mIn.tagsAvoid)
                    ELSE scoreRecipe(pool[i], MatcherTarget, <<>>, <<>>)
    IN  /\ mOut.fn = "findRecipeForMeal005"
           => IF id = 0
              THEN \A k \in DOMAIN c005 : s005(c005[k]) > 80
              ELSE /\ \E k \in DOMAIN c005 : c005[k] = id
                   /\ \A k \in DOMAIN c005 :
                        /\ s005(c005[k]) >= s005(id)
                        /\ s005(c005[k]) = s005(id) => id <= c005[k]
        /\ mOut.fn \in {"getBestRecipeForMeal", "findRecipeForMealAlias"}
           => IF id = 0
              THEN cBest = <<>>
              ELSE /\ \E k \in DOMAIN cBest : cBest[k] = id
                   /\ \A k \in DOMAIN cBest :
                        /\ ~ScoreLess(sBest(cBest[k]), sBest(id))
                        /\ cBest[k] < id
                             => ScoreLess(sBest(id), sBest(cBest[k]))

\* Two candidates share the smallest score and the first of them is
\* returned.
C25_Witness ==
    /\ mOut.fn = "findRecipeForMeal005"
    /\ mIn.pool = <<RecToast, RecWalnut>> /\ mIn.mealType = "breakfast"
    /\ mIn.preferences = <<>>
    /\ mOut.recipeId = 1

\* C26: when satietyLevel is "high", the score of a candidate without the
\* high_satiety tag is its macro distance plus 10 and the score of a
\* tagged candidate is its macro distance; the recipe returned has the
\* smallest such score among the candidates, and that score is at most 80.
\* (The recipeService matcher is taken as planService calls it, with empty
\* tag lists; its macro distance is the square root of d2.)
C26_SatietyPenalty ==
    LET pool == mIn.pool
        id   == mOut.recipeId
        high == mIn.preferences # <<>>
                  /\ mIn.preferences[1].satietyLevel = "high"
        pen(i) == IF SeqContains(normalizeList(pool[i].tags), TxtHighSatiety)
                  THEN 0 ELSE 10
        c005 == candidates005(pool, mIn.mealType, mIn.preferences)
        d005(i) == macroDistance(MatcherTarget, pool[i])
        cBest == candidatesBest(pool, mIn.mealType, <<>>, <<>>)
        sBest(i) == [d2  |-> scoreRecipe(pool[i], MatcherTarget, <<>>, <<>>).d2,
                     adj |-> pen(i)]
    IN  /\ (mOut.fn = "findRecipeForMeal005" /\ high /\ id # 0)
           => /\ d005(id) + pen(id) <= 80
              /\ \A k \in DOMAIN c005 :
                   d005(c005[k]) + pen(c005[k]) >= d005(id) + pen(id)
        /\ (mOut.fn = "findRecipeForMealAlias" /\ high /\ id # 0)
           => /\ ~ScoreLess([d2 |-> 80 * 80, adj |-> 0], sBest(id))
              /\ \A k \in DOMAIN cBest :
                   ~ScoreLess(sBest(cBest[k]), sBest(id))

\* C27: the recipe returned for a slot has mealType null or equal to the
\* slot; and a recipe with mealType null that passes the filters, has an
\* acceptable score and scores strictly better than every other recipe
\* that fits the slot and passes the filters, is the one returned.
C27_NullMealTypeFitsAnySlot ==
    LET pool == mIn.pool
        id   == mOut.recipeId
        Fits(i) == pool[i].mealType \in {NoMealType, mIn.mealType}
        s005(i) == score005(pool[i], MatcherTarget, mIn.preferences)
        Ok005(i) == Fits(i) /\ ~violatesPreferences(pool[i], mIn.preferences)
        sBest(i) == scoreRecipe(pool[i], MatcherTarget, mIn.tagsPreferred,
                                mIn.tagsAvoid)
        OkBest(i) == /\ Fits(i)
                     /\ ~recipeHasExcludedIngredients(pool[i], MatcherExcluded)
                     /\ recipeHasRequiredTags(pool[i], mIn.tagsRequired)
    IN  /\ (mOut.fn # "none" /\ id # 0) => Fits(id)
        /\ mOut.fn = "findRecipeForMeal005"
           => \A i \in DOMAIN pool :
                (/\ pool[i].mealType = NoMealType /\ Ok005(i)
                 /\ s005(i) <= 80
                 /\ \A j \in DOMAIN pool \ {i} : Ok005(j) => s005(i) < s005(j))
                => id = i
        /\ mOut.fn = "getBestRecipeForMeal"
           => \A i \in DOMAIN pool :
                (/\ pool[i].mealType = NoMealType /\ OkBest(i)
                 /\ \A j \in DOMAIN pool \ {i} :
                      OkBest(j) => ScoreLess(sBest(i), sBest(j)))
                => id = i

\* ------------------------------------------------------ claims: concurrency

\* C28: whatever the interleaving of the POST /preferences requests, at
\* most one UserPreferences record exists.
C28_AtMostOnePreferences == Len(userPreferences) <= 1

\* C30: when two AI plan stores that run together have both committed,
\* every title they share, absent from the repository before, has exactly
\* one Recipe row (compared case-insensitively), and the meals of both
\* plans with that title reference that row.
C30_ConcurrentStoresShareRecipe ==
    (\A r \in ReqIds : Done(r) /\ reqs[r].status = 201)
    => /\ \A i, j \in DOMAIN recipes :
            ToLowerCase(recipes[i].title) = ToLowerCase(recipes[j].title)
            => i = j
       /\ \A m1, m2 \in DOMAIN meals :
            (/\ meals[m1].by # meals[m2].by
             /\ ToLowerCase(recipes[meals[m1].recipeId].title)
                  = ToLowerCase(recipes[meals[m2].recipeId].title))
            => meals[m1].recipeId = meals[m2].recipeId

=============================================================================
